---- MODULE Spec2Model ----
(***************************************************************************)
(* VoxDeck content script (src/chrome_extension/popup.js, lines 145-899):  *)
(* the speech-recognition session, its restart policy, the audio context,  *)
(* the transcript panel and the render loop, as one state machine, and the *)
(* toggle of the background script (lines 900-1048) that commands it.      *)
(*                                                                         *)
(* JavaScript runs one task at a time, so every action below is one task   *)
(* of the event loop: from the start of a handler (or the resumption of an *)
(* awaited promise) to its next await on a browser operation.  Awaits on   *)
(* promises that are already settled only yield to microtasks and stay in  *)
(* the same action.                                                        *)
(***************************************************************************)
EXTENDS Integers, Sequences, FiniteSets, TLC

\* ---------------------------------------------------------------- bounds
\* Spec explores the session: several engines and continuations at once,
\* and a transcript panel that stays empty.
MaxEngines   == 2    \* recognition engines alive at once
MaxTasks     == 2    \* async continuations in flight at once
SessionNodes == 0    \* child nodes of the #voxdeck-text panel
\* TranscriptSpec explores the transcript panel, around a small session.
TranscriptEngines == 1
TranscriptTasks   == 1
MaxNodes          == 2
\* PanelSpec explores a longer transcript around the same small session.
PanelNodes == 3
\* RenderSpec explores the render loop around the same small session.
RenderNodes == 1
MaxFrames   == 1     \* frames that sample the analyser
Bins        == 12    \* dataArray.length (1024 in the code)
\* FrameSpec applies a frame to buffers that differ bin by bin; PulseSpec
\* applies several frames to buffers that are level within each band.
MaxLoud     == 3     \* bins above silence in a buffer, in FrameSpec
PulseFrames == 3     \* frames that sample the analyser, in PulseSpec
\* LoopSpec explores the render loops around the same small session.
MaxLoops == 2        \* render loops that are told apart
\* All.
MaxTimers  == 2      \* timer handles
MaxResults == 2      \* results carried by one "result" event

\* The render loops running once the script has loaded: it builds the panel,
\* initThreeJS calls animate() (line 276), and animate keeps itself going
\* with requestAnimationFrame (line 285).
InitialLoops == 1

\* Render loops are counted up to `loops`: only LoopSpec tells the loops that
\* later panels start from the first one.
SessionSize ==
    [engines |-> MaxEngines, tasks |-> MaxTasks, nodes |-> SessionNodes,
     loops |-> InitialLoops]

TranscriptSize ==
    [engines |-> TranscriptEngines, tasks |-> TranscriptTasks,
     nodes |-> MaxNodes, loops |-> InitialLoops]

PanelSize ==
    [engines |-> TranscriptEngines, tasks |-> TranscriptTasks,
     nodes |-> PanelNodes, loops |-> InitialLoops]

Timers == 1 .. MaxTimers

\* A text is a sequence of words; "" is <<>>, += is \o.  Every result of
\* an event carries one word, so texts differ by their length.
Empty == << >>
Transcripts == {<<"a">>}

\* States of a SpeechRecognition object (Web Speech API):
\*   idle      created, not started (or ended): start() is allowed
\*   starting  start() called, "start" not yet delivered
\*   running   "start" delivered
\*   stopping  stop() called while running: it may still deliver results
\*   ending    "error" delivered, or stop() called before "start": all it
\*             will still deliver is "end"
\* An engine in one of the last four states will still signal.
Signalling == {"starting", "running", "stopping", "ending"}
EngineStates == {"idle"} \cup Signalling

\* audioContext: the variable is null, or the state of the context it holds.
\* suspend() and resume() take effect asynchronously: "suspending" still
\* reads 'running', "resuming" still reads 'suspended'.
CtxStates == {"null", "running", "suspending", "suspended", "resuming"}

\* Continuations waiting for a browser operation.
\*   init_gum      initializeRecognition -> initAudio awaiting getUserMedia
\*   start_gum     startRecognition -> initAudio awaiting getUserMedia
\*   start_resume  startRecognition awaiting audioContext.resume()
\*   stale_resume  the same, when audioContext has since been replaced
TaskKinds == {"init_gum", "start_gum", "start_resume", "stale_resume"}

\* Where toggleRecording of the background script is (lines 1007-1033, with
\* startListening and stopListening, lines 974-1004):
\*   none      not running
\*   access    awaiting the answer to 'requestMicrophoneAccess'
\*   start     'startListening' sent, not yet handled by the content script
\*   started   'startListening' handled, its response not yet received
\*   stop      'stopListening' sent, not yet handled by the content script
\*   stopped   'stopListening' handled, its response not yet received
\*   display   'updateDisplay' sent, not yet handled by the content script
TogglePositions ==
    {"none", "access", "start", "started", "stop", "stopped", "display"}

\* Numbers are fixed-point, in thousandths; divisions round down.
Unit == 1000

\* dataArray[i] / 255 (line 304): a byte is at most 255.
MaxByte == 255

\* The bytes the analyser writes into a bin: no signal, or full scale.
Levels == {0, MaxByte}

\* new Uint8Array(analyser.frequencyBinCount): all zero.
Silence == [i \in 1 .. Bins |-> 0]

\* What getByteFrequencyData writes: here the same level in every bin.
LevelBuffers == {[i \in 1 .. Bins |-> v] : v \in Levels}

\* The mesh initThreeJS creates: uniforms time and pulseIntensity 0, no
\* rotation, scale 1.
NewMesh ==
    [time |-> 0, pulseIntensity |-> 0, rotation |-> [x |-> 0, y |-> 0],
     scale |-> Unit]

\* What getByteFrequencyData writes, bin by bin: a few bins at full scale,
\* anywhere in the buffer.
Buffers ==
    {data \in [1 .. Bins -> Levels] :
        Cardinality({i \in 1 .. Bins : data[i] # 0}) <= MaxLoud}

\* The buffers with the same level in every bin of a band: the bins up to
\* 10%, those up to 40% and the rest of the buffer.
BandBuffers ==
    {[i \in 1 .. Bins |-> IF 10 * i <= Bins THEN b
                          ELSE IF 10 * i <= 4 * Bins THEN m ELSE t] :
        b \in Levels, m \in Levels, t \in Levels}

RenderSize ==
    [engines |-> TranscriptEngines, tasks |-> TranscriptTasks,
     nodes |-> RenderNodes, buffers |-> LevelBuffers, frames |-> MaxFrames,
     loops |-> InitialLoops]

HostSize ==
    [engines |-> TranscriptEngines, tasks |-> TranscriptTasks,
     nodes |-> SessionNodes, loops |-> InitialLoops]

LoopSize ==
    [engines |-> TranscriptEngines, tasks |-> TranscriptTasks,
     nodes |-> SessionNodes, buffers |-> LevelBuffers, frames |-> MaxFrames,
     loops |-> MaxLoops]

FrameSize == [buffers |-> Buffers, frames |-> MaxFrames]

PulseSize == [buffers |-> BandBuffers, frames |-> PulseFrames]

VARIABLES
    isListening,      \* let isListening (line 147)
    restartTimeout,   \* let restartTimeout (line 148): 0 is null, else a handle
    timers,           \* handles of the timers that are pending
    recognition,      \* let recognition (line 150): "null", or the state of
                      \* the engine it refers to
    released,         \* engines nothing refers to any more that will still
                      \* signal: how many there are in each state
    audioContext,     \* let audioContext (line 151)
    hasDisplay,       \* #voxdeck-container is in the document
    recording,        \* #voxdeck-record-button has class "recording"
    display,          \* children of #voxdeck-text, in document order
    tasks,            \* number of pending continuations of each kind
    finalTranscript,  \* let finalTranscript (line 397), and
    interimTranscript,\* let interimTranscript (line 398), of the "result"
                      \* event this task handles; empty in every other task
    initAudioCalled,  \* this task has run initAudio up to its await: it
                      \* has created an AudioContext (line 158) and asked
                      \* for the microphone (line 165)
    dataArray,        \* let dataArray (line 146): the frequency buffer
    visualizer,       \* let visualizer (line 146): the mesh's time and
                      \* pulseIntensity uniforms, rotation and scale
    renderLoops,      \* the requestAnimationFrame(animate) loops that run
    hostIsListening,  \* let isListening of the background script (line 911)
    toggling,         \* where the background script's toggleRecording is
    last              \* the handler that ran last

vars == <<isListening, restartTimeout, timers, recognition, released,
          audioContext, hasDisplay, recording, display, tasks,
          finalTranscript, interimTranscript, initAudioCalled, dataArray,
          visualizer, renderLoops, hostIsListening, toggling, last>>

\* The variables of the background script.
host == <<hostIsListening, toggling>>

\* The task is not recognition.onresult: its locals do not exist.
NoResult == finalTranscript' = Empty /\ interimTranscript' = Empty

\* ------------------------------------------------------ the session record
\* The handlers call each other; each function below maps the globals before
\* a call to the globals after it.
S ==
    [isListening |-> isListening, restartTimeout |-> restartTimeout,
     timers |-> timers, recognition |-> recognition, released |-> released,
     audioContext |-> audioContext, hasDisplay |-> hasDisplay,
     recording |-> recording, tasks |-> tasks, dataArray |-> dataArray,
     initAudioCalled |-> FALSE]

Commit(s) ==
    /\ isListening' = s.isListening
    /\ restartTimeout' = s.restartTimeout
    /\ timers' = s.timers
    /\ recognition' = s.recognition
    /\ released' = s.released
    /\ audioContext' = s.audioContext
    /\ recording' = s.recording
    /\ tasks' = s.tasks
    /\ dataArray' = s.dataArray
    /\ initAudioCalled' = s.initAudioCalled

NumTasks(t) == t["init_gum"] + t["start_gum"] + t["start_resume"] + t["stale_resume"]

AddTask(t, k) == [t EXCEPT ![k] = @ + 1]

DelTask(t, k) == [t EXCEPT ![k] = @ - 1]

NumReleased(r) == r["starting"] + r["running"] + r["stopping"] + r["ending"]

\* recognition.stop(): a no-op unless the engine was started.
EngineStop(st) ==
    IF st = "running" THEN "stopping"
    ELSE IF st = "starting" THEN "ending"
    ELSE st

\* audioContext.suspend()
CtxSuspend(st) ==
    IF st = "running" THEN "suspending"
    ELSE IF st = "resuming" THEN "suspended"
    ELSE st

\* audioContext.state === 'suspended'
ReadsSuspended(st) == st \in {"suspended", "resuming"}

\* recognition = <something else>: the engine it referred to lives on if it
\* will still signal.
Assign(s, new) ==
    [s EXCEPT !.recognition = new,
              !.released = IF s.recognition \in Signalling
                           THEN [@ EXCEPT ![s.recognition] = @ + 1] ELSE @]

\* The engine that signals goes from state `from` to state `to`; cur says
\* whether it is the one recognition refers to.
Signal(s, cur, from, to) ==
    IF cur THEN [s EXCEPT !.recognition = to]
    ELSE [s EXCEPT !.released =
             IF to = "idle" THEN [@ EXCEPT ![from] = @ - 1]
             ELSE [@ EXCEPT ![from] = @ - 1, ![to] = @ + 1]]

\* A handle setTimeout has not handed out to anything still held.
NewTimer(s) ==
    CHOOSE t \in Timers \ (s.timers \cup {s.restartTimeout}) :
        \A u \in Timers \ (s.timers \cup {s.restartTimeout}) : t <= u

\* ------------------------------------------------------------- the helpers
updateRecordButtonState(s, isRecording) ==
    IF s.hasDisplay THEN [s EXCEPT !.recording = isRecording] ELSE s

\* initAudio up to its await: a new context replaces the old one, whose
\* pending resume no longer concerns audioContext, and a new analyser and a
\* new buffer replace the old ones.
initAudioBegin(s, ctxInit, kind) ==
    [s EXCEPT !.audioContext = ctxInit,
              !.dataArray = Silence,
              !.initAudioCalled = TRUE,
              !.tasks = AddTask(
                  [@ EXCEPT !["stale_resume"] = @ + s.tasks["start_resume"],
                            !["start_resume"] = 0], kind)]

\* startRecognition from line 841: recognition.start() throws on an engine
\* that is already started, and the catch leaves the flags alone.
startRecognitionEnd(s) ==
    IF s.recognition = "idle"
    THEN updateRecordButtonState(
             [s EXCEPT !.recognition = "starting", !.isListening = TRUE], TRUE)
    ELSE s

\* startRecognition up to its first await on a browser operation.
startRecognitionBegin(s, ctxInit) ==
    IF s.audioContext = "null" \/ ReadsSuspended(s.audioContext)
    THEN initAudioBegin(s, ctxInit, "start_gum")
    ELSE startRecognitionEnd(s)

\* startRecognition after its initAudio() has settled.
startRecognitionAfterGum(s, ok) ==
    IF ~ok THEN s
    ELSE IF ReadsSuspended(s.audioContext)
    THEN [s EXCEPT !.audioContext = "resuming",
                   !.tasks = AddTask(@, "start_resume")]
    ELSE startRecognitionEnd(s)

\* startRecognition after audioContext.resume() has settled.
startRecognitionAfterResume(s, stale) ==
    startRecognitionEnd(
        IF ~stale /\ s.audioContext = "resuming"
        THEN [s EXCEPT !.audioContext = "running"] ELSE s)

\* stopRecognition as section 4.1 of the design describes it, releasing the
\* engine reference as well: not what the code does.
stopRecognitionReleasing(s) ==
    LET s1 == IF s.recognition # "null"
              THEN Assign([s EXCEPT !.recognition = EngineStop(@)], "null")
              ELSE s
        s2 == IF s1.audioContext # "null"
              THEN [s1 EXCEPT !.audioContext = CtxSuspend(@)]
              ELSE s1
    IN updateRecordButtonState([s2 EXCEPT !.isListening = FALSE], FALSE)

stopRecognition(s) ==
    LET s1 == IF s.recognition # "null"
              THEN [s EXCEPT !.recognition = EngineStop(@)]
              ELSE s
        s2 == IF s1.audioContext # "null"
              THEN [s1 EXCEPT !.audioContext = CtxSuspend(@)]
              ELSE s1
    IN updateRecordButtonState([s2 EXCEPT !.isListening = FALSE], FALSE)

\* initializeRecognition up to its await on initAudio().
initializeRecognitionBegin(s, ctxInit) ==
    LET s1 == IF s.recognition # "null"
              THEN Assign([s EXCEPT !.recognition = EngineStop(@)], "null")
              ELSE s
    IN initAudioBegin(s1, ctxInit, "init_gum")

\* initializeRecognition that goes on whatever initAudio() returned: not what
\* the code does, it throws and returns false when initAudio() failed.
initializeRecognitionEndAnyway(s, ok, ctxInit) ==
    startRecognitionBegin(Assign(s, "idle"), ctxInit)

\* initializeRecognition after initAudio() has settled; the click handler
\* then calls startRecognition() if it returned true.
initializeRecognitionEnd(s, ok, ctxInit) ==
    IF ~ok THEN s
    ELSE startRecognitionBegin(Assign(s, "idle"), ctxInit)

\* The body of recognition.onend.
onend(s, cur, from) ==
    LET s1 == updateRecordButtonState(
                  [Signal(s, cur, from, "idle") EXCEPT !.isListening = FALSE],
                  FALSE)
    IN IF s1.hasDisplay /\ s1.recording
       THEN [s1 EXCEPT !.timers = (@ \ {s1.restartTimeout}) \cup {NewTimer(s1)},
                       !.restartTimeout = NewTimer(s1)]
       ELSE s1

\* The body of recognition.onerror.
onerror(s, cur, from) ==
    updateRecordButtonState(
        [Signal(s, cur, from, "ending") EXCEPT !.isListening = FALSE], FALSE)

\* The body of recognition.onstart.
onstart(s, cur, from) ==
    updateRecordButtonState(
        [Signal(s, cur, from, "running") EXCEPT !.isListening = TRUE], TRUE)

\* ------------------------------------------------------------ the transcript
Node(cls, text) == [cls |-> cls, text |-> text]

InterimAt(d) == {i \in 1 .. Len(d) : d[i].cls = "interim"}

\* display.querySelector('.interim-text'): the first one in document order.
FirstInterim(d) == CHOOSE i \in InterimAt(d) : \A j \in InterimAt(d) : i <= j

\* appendTranscript with a single final node that is rewritten: not what the
\* code does, it creates a node for every final text.
appendTranscriptRewriting(d, finalText, interimText) ==
    LET finalAt == {i \in 1 .. Len(d) : d[i].cls = "final"}
        d1 == IF finalText = Empty THEN d
              ELSE IF finalAt = {} THEN Append(d, Node("final", finalText))
              ELSE [d EXCEPT ![CHOOSE i \in finalAt : TRUE].text = finalText]
    IN IF InterimAt(d1) # {}
       THEN [d1 EXCEPT ![FirstInterim(d1)].text = interimText]
       ELSE Append(d1, Node("interim", interimText))

\* appendTranscript that writes the interim node only when there is interim
\* text: not what the code does, it writes it on every call.
appendTranscriptKeeping(d, finalText, interimText) ==
    LET d1 == IF finalText # Empty
              THEN Append(d, Node("final", finalText))
              ELSE d
    IN IF InterimAt(d1) # {}
       THEN IF interimText # Empty
            THEN [d1 EXCEPT ![FirstInterim(d1)].text = interimText]
            ELSE d1
       ELSE Append(d1, Node("interim", interimText))

\* appendTranscript that creates an interim node on every call: not what the
\* code does, it looks for the one the panel has (line 819).
appendTranscriptAppending(d, finalText, interimText) ==
    LET d1 == IF finalText # Empty
              THEN Append(d, Node("final", finalText))
              ELSE d
    IN Append(d1, Node("interim", interimText))

appendTranscript(d, finalText, interimText) ==
    LET d1 == IF finalText # Empty
              THEN Append(d, Node("final", finalText))
              ELSE d
    IN IF InterimAt(d1) # {}
       THEN [d1 EXCEPT ![FirstInterim(d1)].text = interimText]
       ELSE Append(d1, Node("interim", interimText))

\* The loop of recognition.onresult over event.results from resultIndex.
RECURSIVE Gather(_, _)
Gather(results, final) ==
    IF results = << >> THEN Empty
    ELSE (IF Head(results).isFinal = final THEN Head(results).transcript
          ELSE Empty) \o Gather(Tail(results), final)

Results == [isFinal : BOOLEAN, transcript : Transcripts]

Events == UNION {[1 .. n -> Results] : n \in 0 .. MaxResults}

\* The transcript as the panel shows it: the texts of the final nodes in
\* document order, and the text of the interim node ("" when there is none).
FinalSegments(d) ==
    LET finals == SelectSeq(d, LAMBDA node : node.cls = "final")
    IN [i \in 1 .. Len(finals) |-> finals[i].text]

InterimSegment(d) ==
    IF InterimAt(d) = {} THEN Empty ELSE d[FirstInterim(d)].text

onresult(d, ev) ==
    IF Gather(ev, TRUE) # Empty \/ Gather(ev, FALSE) # Empty
    THEN appendTranscript(d, Gather(ev, TRUE), Gather(ev, FALSE))
    ELSE d

\* ------------------------------------------------------------ the render loop
\* Math.pow(x, 1.2), to the nearest thousandth, at the arguments that buffers
\* of Levels produce: 0, 1 and 1.2.
Pow12(x) ==
    CASE x = 0 -> 0
      [] x = Unit -> Unit
      [] x = (12 * Unit) \div 10 -> (1245 * Unit) \div 1000

\* The loop of animate over dataArray (lines 303-312), from index i (counted
\* from 0) on: the sums of the normalised bins of each range.
RECURSIVE BandSums(_, _, _, _)
BandSums(data, i, bassRange, midRange) ==
    IF i >= Len(data) THEN [bass |-> 0, mid |-> 0, treble |-> 0]
    ELSE LET value == (data[i + 1] * Unit) \div MaxByte
             rest == BandSums(data, i + 1, bassRange, midRange)
         IN IF i < bassRange THEN [rest EXCEPT !.bass = @ + value]
            ELSE IF i < midRange THEN [rest EXCEPT !.mid = @ + value]
            ELSE [rest EXCEPT !.treble = @ + value]

\* The band means that divide the mid sum by the bound of the mid range: not
\* what the code does, it divides by midRange - bassRange.
BandMeansByBound(data) ==
    LET bassRange == Len(data) \div 10
        midRange == (Len(data) * 4) \div 10
        sum == BandSums(data, 0, bassRange, midRange)
    IN [bass |-> sum.bass \div bassRange,
        mid |-> sum.mid \div midRange,
        treble |-> sum.treble \div (Len(data) - midRange)]

\* The quotients of lines 315-317: each sum over the length of its range.
BandMeans(data) ==
    LET bassRange == Len(data) \div 10
        midRange == (Len(data) * 4) \div 10
        sum == BandSums(data, 0, bassRange, midRange)
    IN [bass |-> sum.bass \div bassRange,
        mid |-> sum.mid \div (midRange - bassRange),
        treble |-> sum.treble \div (Len(data) - midRange)]

\* bassAvg, midAvg and trebleAvg of animate (lines 300-317).
BandAverages(data) ==
    LET mean == BandMeans(data)
    IN [bassAvg |-> (Pow12(mean.bass) * 12) \div 10,
        midAvg |-> (mean.mid * 8) \div 10,
        trebleAvg |-> (mean.treble * 7) \div 10]

\* targetPulse of animate (line 320).
targetPulse(avg) == Pow12(avg.bassAvg) * 3 + (avg.midAvg * 12) \div 10

\* animate that adds 0.15 of targetPulse to the pulse: not what the code does,
\* it adds 0.15 of the distance from the pulse to targetPulse.
animateAccumulating(mesh, data) ==
    LET avg == BandAverages(data)
        targetRotationSpeed == 1 + (avg.bassAvg * 15 + avg.midAvg * 8) \div 1000
        targetScale == Unit + (avg.bassAvg * 30 + avg.midAvg * 15) \div 100
    IN [time |-> mesh.time + 30,
        pulseIntensity |-> mesh.pulseIntensity + (targetPulse(avg) * 15) \div 100,
        rotation |-> [x |-> mesh.rotation.x + targetRotationSpeed,
                      y |-> mesh.rotation.y + (targetRotationSpeed * 12) \div 10],
        scale |-> mesh.scale + ((targetScale - mesh.scale) * 15) \div 100]

\* The body of animate's if (lines 289-342) on the mesh, given the buffer
\* that getByteFrequencyData has filled.  (The colour is left out.)
animate(mesh, data) ==
    LET avg == BandAverages(data)
        targetRotationSpeed == 1 + (avg.bassAvg * 15 + avg.midAvg * 8) \div 1000
        targetScale == Unit + (avg.bassAvg * 30 + avg.midAvg * 15) \div 100
    IN [time |-> mesh.time + 30,
        pulseIntensity |-> mesh.pulseIntensity
                           + ((targetPulse(avg) - mesh.pulseIntensity) * 15)
                             \div 100,
        rotation |-> [x |-> mesh.rotation.x + targetRotationSpeed,
                      y |-> mesh.rotation.y + (targetRotationSpeed * 12) \div 10],
        scale |-> mesh.scale + ((targetScale - mesh.scale) * 15) \div 100]

\* -------------------------------------------------------------------- Init
Init ==
    /\ isListening = FALSE
    /\ restartTimeout = 0
    /\ timers = {}
    /\ recognition = "null"
    /\ released = [st \in Signalling |-> 0]
    /\ audioContext = "null"
    /\ hasDisplay = TRUE
    /\ recording = FALSE
    /\ display = << >>
    /\ tasks = [k \in TaskKinds |-> 0]
    /\ finalTranscript = Empty
    /\ interimTranscript = Empty
    /\ initAudioCalled = FALSE
    /\ dataArray = Silence
    /\ visualizer = NewMesh
    /\ renderLoops = InitialLoops
    /\ hostIsListening = FALSE
    /\ toggling = "none"
    /\ last = "load"

\* ----------------------------------------------------------------- actions
\* recordButton click handler, up to its first await.
RecordClick(z) ==
    /\ hasDisplay
    /\ IF isListening
       THEN /\ Commit(stopRecognition(S))
            /\ last' = "click_stop"
       ELSE /\ NumTasks(tasks) < z.tasks
            /\ \E ctxInit \in {"running", "suspended"} :
                   Commit(initializeRecognitionBegin(S, ctxInit))
            /\ last' = "click_start"
    /\ UNCHANGED <<hasDisplay, display>>
    /\ NoResult
    /\ UNCHANGED <<visualizer, renderLoops>>
    /\ UNCHANGED host

\* getUserMedia of initializeRecognition's initAudio settles.
InitAudioSettles(z) ==
    /\ tasks["init_gum"] > 0
    /\ \E ok \in BOOLEAN, ctxInit \in {"running", "suspended"} :
        LET s == initializeRecognitionEnd(
                     [S EXCEPT !.tasks = DelTask(@, "init_gum")], ok, ctxInit)
        IN /\ ok => NumReleased(s.released) < z.engines
           /\ Commit(s)
           /\ last' = IF ok THEN "init_ok" ELSE "init_failed"
    /\ UNCHANGED <<hasDisplay, display>>
    /\ NoResult
    /\ UNCHANGED <<visualizer, renderLoops>>
    /\ UNCHANGED host

\* getUserMedia of startRecognition's initAudio settles.
StartAudioSettles ==
    /\ tasks["start_gum"] > 0
    /\ \E ok \in BOOLEAN :
        /\ Commit(startRecognitionAfterGum(
                      [S EXCEPT !.tasks = DelTask(@, "start_gum")], ok))
        /\ last' = IF ok THEN "audio_ok" ELSE "audio_failed"
    /\ UNCHANGED <<hasDisplay, display>>
    /\ NoResult
    /\ UNCHANGED <<visualizer, renderLoops>>
    /\ UNCHANGED host

\* audioContext.resume() of startRecognition settles.
ResumeSettles ==
    /\ \E k \in {"start_resume", "stale_resume"} :
        /\ tasks[k] > 0
        /\ Commit(startRecognitionAfterResume(
                      [S EXCEPT !.tasks = DelTask(@, k)], k = "stale_resume"))
    /\ last' = "resumed"
    /\ UNCHANGED <<hasDisplay, display>>
    /\ NoResult
    /\ UNCHANGED <<visualizer, renderLoops>>
    /\ UNCHANGED host

\* The suspend() of stopRecognition takes effect.
SuspendSettles ==
    /\ audioContext = "suspending"
    /\ audioContext' = "suspended"
    /\ initAudioCalled' = FALSE
    /\ last' = "suspended"
    /\ UNCHANGED <<isListening, restartTimeout, timers, recognition, released,
                   hasDisplay, recording, display, tasks, dataArray>>
    /\ NoResult
    /\ UNCHANGED <<visualizer, renderLoops>>
    /\ UNCHANGED host

\* The content script's listener on the message 'startListening'.
OnStartListening(z) ==
    /\ \E ctxInit \in {"running", "suspended"} :
        LET s == startRecognitionBegin(S, ctxInit)
        IN /\ NumTasks(s.tasks) <= z.tasks
           /\ Commit(s)
    /\ last' = "msg_start"
    /\ UNCHANGED <<hasDisplay, display>>
    /\ NoResult
    /\ UNCHANGED <<visualizer, renderLoops>>

\* chrome.runtime.onMessage, action 'startListening', whenever it comes.
StartListeningMessage(z) == OnStartListening(z) /\ UNCHANGED host

\* The content script's listener on the message 'stopListening'.
OnStopListening ==
    /\ Commit(stopRecognition(S))
    /\ last' = "msg_stop"
    /\ UNCHANGED <<hasDisplay, display>>
    /\ NoResult
    /\ UNCHANGED <<visualizer, renderLoops>>

\* chrome.runtime.onMessage, action 'stopListening', whenever it comes.
StopListeningMessage == OnStopListening /\ UNCHANGED host

\* The content script's listener on the message 'updateDisplay', when the
\* panel is gone: createOrUpdateDisplay builds a new panel, and initThreeJS a
\* new mesh and, by calling animate(), one more render loop; nothing ends the
\* loops that run already.
OnUpdateDisplay(z) ==
    /\ ~hasDisplay
    /\ hasDisplay' = TRUE
    /\ display' = << >>
    /\ recording' = FALSE
    /\ visualizer' = NewMesh
    /\ renderLoops' = IF renderLoops < z.loops THEN renderLoops + 1
                      ELSE renderLoops
    /\ initAudioCalled' = FALSE
    /\ last' = "create"
    /\ UNCHANGED <<isListening, restartTimeout, timers, recognition, released,
                   audioContext, tasks, dataArray>>
    /\ NoResult

\* chrome.runtime.onMessage, action 'updateDisplay', whenever it comes.
CreateDisplay(z) == OnUpdateDisplay(z) /\ UNCHANGED host

\* closeButton click handler.
CloseClick ==
    /\ hasDisplay
    /\ Commit([stopRecognition(S) EXCEPT !.recording = FALSE])
    /\ hasDisplay' = FALSE
    /\ display' = << >>
    /\ last' = "close"
    /\ NoResult
    /\ UNCHANGED <<visualizer, renderLoops>>
    /\ UNCHANGED host

\* The engines that can signal from state `from`: cur = TRUE is the one
\* recognition refers to, cur = FALSE a released one.
CanSignal(cur, from) ==
    IF cur THEN recognition = from ELSE released[from] > 0

\* The name of a signal handler in `last`: signals of a released engine are
\* told apart from those of the engine recognition refers to.
Handler(name, cur) == IF cur THEN name ELSE name \o "_released"

\* recognition.onstart
OnStart(cur) ==
    /\ CanSignal(cur, "starting")
    /\ Commit(onstart(S, cur, "starting"))
    /\ last' = Handler("onstart", cur)
    /\ UNCHANGED <<hasDisplay, display>>
    /\ NoResult
    /\ UNCHANGED <<visualizer, renderLoops>>
    /\ UNCHANGED host

\* recognition.onend that starts the next session on an empty transcript: not
\* what the code does, its onend leaves the panel's text alone.
OnEndClearing(cur, from) ==
    /\ from \in {"running", "stopping", "ending"}
    /\ CanSignal(cur, from)
    /\ Commit(onend(S, cur, from))
    /\ last' = Handler(IF recording THEN "onend_recording" ELSE "onend", cur)
    /\ display' = << >>
    /\ NoResult
    /\ UNCHANGED <<visualizer, renderLoops>>
    /\ UNCHANGED host
    /\ UNCHANGED hasDisplay

\* recognition.onend
OnEnd(cur, from) ==
    /\ from \in {"running", "stopping", "ending"}
    /\ CanSignal(cur, from)
    /\ Commit(onend(S, cur, from))
    /\ last' = Handler(IF recording THEN "onend_recording" ELSE "onend", cur)
    /\ UNCHANGED <<hasDisplay, display>>
    /\ NoResult
    /\ UNCHANGED <<visualizer, renderLoops>>
    /\ UNCHANGED host

\* recognition.onerror that puts the panel back in its initial state: not
\* what the code does, its onerror writes the flag and the button only.
OnErrorResetting(cur, from) ==
    /\ from \in {"starting", "running", "stopping"}
    /\ CanSignal(cur, from)
    /\ Commit(onerror(S, cur, from))
    /\ last' = Handler("onerror", cur)
    /\ display' = << >>
    /\ visualizer' = NewMesh
    /\ NoResult
    /\ UNCHANGED <<hasDisplay, renderLoops>>
    /\ UNCHANGED host

\* recognition.onerror
OnError(cur, from) ==
    /\ from \in {"starting", "running", "stopping"}
    /\ CanSignal(cur, from)
    /\ Commit(onerror(S, cur, from))
    /\ last' = Handler("onerror", cur)
    /\ UNCHANGED <<hasDisplay, display>>
    /\ NoResult
    /\ UNCHANGED <<visualizer, renderLoops>>
    /\ UNCHANGED host

\* recognition.onresult, of any engine that is recognising
OnResult(z) ==
    /\ \E cur \in BOOLEAN, from \in {"running", "stopping"} :
           CanSignal(cur, from)
    /\ \E ev \in Events :
        /\ display' = IF hasDisplay THEN onresult(display, ev) ELSE display
        /\ Len(display') <= z.nodes
        /\ finalTranscript' = Gather(ev, TRUE)
        /\ interimTranscript' = Gather(ev, FALSE)
    /\ initAudioCalled' = FALSE
    /\ last' = "onresult"
    /\ UNCHANGED <<isListening, restartTimeout, timers, recognition, released,
                   audioContext, hasDisplay, recording, tasks, dataArray,
                   visualizer, renderLoops>>
    /\ UNCHANGED host

\* The callback handed to setTimeout in recognition.onend.
RestartTimeoutFires(z, t) ==
    /\ t \in timers
    /\ \E ctxInit \in {"running", "suspended"} :
        LET s0 == [S EXCEPT !.timers = @ \ {t}]
            s == IF s0.hasDisplay /\ s0.recording
                 THEN startRecognitionBegin(s0, ctxInit) ELSE s0
        IN /\ NumTasks(s.tasks) <= z.tasks
           /\ Commit(s)
    /\ last' = "restart"
    /\ UNCHANGED <<hasDisplay, display>>
    /\ NoResult
    /\ UNCHANGED <<visualizer, renderLoops>>
    /\ UNCHANGED host

\* One callback of requestAnimationFrame(animate), of any of the loops.  The
\* loops run whether the panel is in the document or not; the frame samples the analyser and moves
\* the mesh only if analyser is set (initAudio has run) and isListening.
AnimationFrame(z) ==
    /\ IF audioContext # "null" /\ isListening
       THEN /\ visualizer.time < z.frames * 30
            /\ \E data \in z.buffers :
                /\ dataArray' = data
                /\ visualizer' = animate(visualizer, data)
       ELSE UNCHANGED <<dataArray, visualizer>>
    /\ initAudioCalled' = FALSE
    /\ last' = "animate"
    /\ UNCHANGED <<isListening, restartTimeout, timers, recognition, released,
                   audioContext, hasDisplay, recording, display, tasks,
                   renderLoops>>
    /\ NoResult
    /\ UNCHANGED host

\* ------------------------------------------------------ the background script
\* The content script's variables, for the tasks of the background script.
content == <<isListening, restartTimeout, timers, recognition, released,
             audioContext, hasDisplay, recording, display, tasks, dataArray,
             visualizer, renderLoops>>

\* A task of the background script: it runs none of the content script.
HostTask(name) ==
    /\ last' = name
    /\ initAudioCalled' = FALSE
    /\ NoResult
    /\ UNCHANGED content

\* chrome.action.onClicked, or the command 'toggle-recording': toggleRecording
\* up to its first message.  (Injecting the content script again, and asking
\* for the active tab, change nothing here.)
ToggleRecording ==
    /\ toggling = "none"
    /\ toggling' = IF hostIsListening THEN "stop" ELSE "access"
    /\ UNCHANGED hostIsListening
    /\ HostTask("toggle")

\* The answer to 'requestMicrophoneAccess' arrives: the content script has
\* called getUserMedia on its own, apart from initAudio.  On success
\* startListening runs up to its message (initializeSpeechRecognition creates
\* an engine inside an injected function and drops it); otherwise the catch
\* of toggleRecording sends 'updateDisplay'.
AccessSettles ==
    /\ toggling = "access"
    /\ \E success \in BOOLEAN :
        /\ toggling' = IF success THEN "start" ELSE "display"
        /\ HostTask(IF success THEN "access_ok" ELSE "access_failed")
    /\ UNCHANGED hostIsListening

\* The content script handles the 'startListening' of startListening.
StartListeningDelivered(z) ==
    /\ toggling = "start"
    /\ OnStartListening(z)
    /\ toggling' = "started"
    /\ UNCHANGED hostIsListening

\* startListening after its message was answered (lines 981-983).
StartListeningAnswered ==
    /\ toggling = "started"
    /\ hostIsListening' = TRUE
    /\ toggling' = "display"
    /\ HostTask("start_answered")

\* The content script handles the 'stopListening' of stopListening.
StopListeningDelivered ==
    /\ toggling = "stop"
    /\ OnStopListening
    /\ toggling' = "stopped"
    /\ UNCHANGED hostIsListening

\* stopListening after its message was answered (lines 997-999).
StopListeningAnswered ==
    /\ toggling = "stopped"
    /\ hostIsListening' = FALSE
    /\ toggling' = "display"
    /\ HostTask("stop_answered")

\* The content script handles the 'updateDisplay' that ends the toggle:
\* createOrUpdateDisplay builds the panel if it is gone, and returns the one
\* that is there otherwise.
UpdateDisplayDelivered(z) ==
    /\ toggling = "display"
    /\ IF hasDisplay
       THEN /\ last' = "update"
            /\ initAudioCalled' = FALSE
            /\ NoResult
            /\ UNCHANGED content
       ELSE OnUpdateDisplay(z)
    /\ toggling' = "none"
    /\ UNCHANGED hostIsListening

\* The content script with the background script: the messages come from
\* toggleRecording only.
HostStep(z) ==
    \/ RecordClick(z)
    \/ InitAudioSettles(z)
    \/ StartAudioSettles
    \/ ResumeSettles
    \/ SuspendSettles
    \/ CloseClick
    \/ \E cur \in BOOLEAN : OnStart(cur)
    \/ \E cur \in BOOLEAN, from \in Signalling : OnEnd(cur, from)
    \/ \E cur \in BOOLEAN, from \in Signalling : OnError(cur, from)
    \/ OnResult(z)
    \/ ToggleRecording
    \/ AccessSettles
    \/ StartListeningDelivered(z)
    \/ StartListeningAnswered
    \/ StopListeningDelivered
    \/ StopListeningAnswered
    \/ UpdateDisplayDelivered(z)

\* No disjunct for RestartTimeoutFires: NoRestartArmed below shows that no
\* timer is ever pending, so the callback never runs.
Step(z) ==
    \/ RecordClick(z)
    \/ InitAudioSettles(z)
    \/ StartAudioSettles
    \/ ResumeSettles
    \/ SuspendSettles
    \/ StartListeningMessage(z)
    \/ StopListeningMessage
    \/ CreateDisplay(z)
    \/ CloseClick
    \/ \E cur \in BOOLEAN : OnStart(cur)
    \/ \E cur \in BOOLEAN, from \in Signalling : OnEnd(cur, from)
    \/ \E cur \in BOOLEAN, from \in Signalling : OnError(cur, from)
    \/ OnResult(z)

Next == Step(SessionSize)

Spec == Init /\ [][Next]_vars

TranscriptNext == Step(TranscriptSize)

TranscriptSpec == Init /\ [][TranscriptNext]_vars

PanelNext == Step(PanelSize)

PanelSpec == Init /\ [][PanelNext]_vars

RenderNext == Step(RenderSize) \/ AnimationFrame(RenderSize)

RenderSpec == Init /\ [][RenderNext]_vars

LoopNext == Step(LoopSize) \/ AnimationFrame(LoopSize)

LoopSpec == Init /\ [][LoopNext]_vars

HostNext == HostStep(HostSize)

HostSpec == Init /\ [][HostNext]_vars

\* The session is listening, after a record click whose audio initialisation
\* succeeded and the engine's "start" signal; no frame has sampled yet.
ListeningInit ==
    /\ isListening = TRUE
    /\ restartTimeout = 0
    /\ timers = {}
    /\ recognition = "running"
    /\ released = [st \in Signalling |-> 0]
    /\ audioContext = "running"
    /\ hasDisplay = TRUE
    /\ recording = TRUE
    /\ display = << >>
    /\ tasks = [k \in TaskKinds |-> 0]
    /\ finalTranscript = Empty
    /\ interimTranscript = Empty
    /\ initAudioCalled = FALSE
    /\ dataArray = Silence
    /\ visualizer = NewMesh
    /\ renderLoops = InitialLoops
    /\ hostIsListening = FALSE
    /\ toggling = "none"
    /\ last = "onstart"

\* The frame as a function of the buffer: one frame on any buffer.
FrameNext == AnimationFrame(FrameSize)

FrameSpec == ListeningInit /\ [][FrameNext]_vars

\* The smoothing as a function of the frames before: several frames on
\* buffers that are level within each band.
PulseNext == AnimationFrame(PulseSize)

PulseSpec == ListeningInit /\ [][PulseNext]_vars

\* What the browser guarantees: a pending timer fires, a pending promise
\* settles, a started engine signals "start" and a stopped or failed one
\* signals "end".  Nothing obliges the user or the host to send a command.
BrowserStep ==
    \/ InitAudioSettles(SessionSize)
    \/ StartAudioSettles
    \/ ResumeSettles
    \/ SuspendSettles
    \/ \E cur \in BOOLEAN : OnStart(cur)
    \/ \E cur \in BOOLEAN, from \in {"stopping", "ending"} : OnEnd(cur, from)

FairSpec ==
    /\ Init /\ [][Next]_vars
    /\ WF_vars(\E t \in Timers : RestartTimeoutFires(SessionSize, t))
    /\ WF_vars(BrowserStep)

TypeOK ==
    /\ isListening \in BOOLEAN
    /\ restartTimeout \in 0 .. MaxTimers
    /\ timers \subseteq Timers
    /\ recognition \in {"null"} \cup EngineStates
    /\ released \in [Signalling -> Nat]
    /\ audioContext \in CtxStates
    /\ hasDisplay \in BOOLEAN
    /\ recording \in BOOLEAN
    /\ display \in Seq([cls : {"final", "interim"}, text : Seq({"a"})])
    /\ tasks \in [TaskKinds -> Nat]
    /\ finalTranscript \in Seq({"a"})
    /\ interimTranscript \in Seq({"a"})
    /\ initAudioCalled \in BOOLEAN
    /\ dataArray \in [1 .. Bins -> 0 .. MaxByte]
    /\ visualizer.time \in Nat
    /\ visualizer.pulseIntensity \in Nat
    /\ visualizer.scale \in Nat
    /\ renderLoops \in InitialLoops .. MaxLoops
    /\ hostIsListening \in BOOLEAN
    /\ toggling \in TogglePositions

\* ------------------------------------------------------------------ claims
\* Engines that were started and have neither been asked to stop, nor failed,
\* nor ended.
LiveEngines ==
    (IF recognition \in {"starting", "running"} THEN 1 ELSE 0)
    + released["starting"] + released["running"]

\* The session fields the idempotence guarantee names.
SessionFields == <<isListening, recognition, released, restartTimeout, timers>>

\* The session is already starting or listening.
SessionActive == isListening /\ recognition \in {"starting", "running"}

\* The session has nothing to stop.
SessionIdle == ~isListening /\ recognition \in {"null", "idle"}

\* The steps in which a start command takes effect: the 'startListening'
\* message and the continuations of startRecognition and of the record click.
StartSteps == {"msg_start", "init_ok", "audio_ok", "resumed"}

\* The commands of the user and of the host.
Commands == {"click_start", "click_stop", "msg_start", "msg_stop", "close"}

\* C1: at most one recognition engine is live at any time, also when a
\* second activation arrives while the first awaits audio initialisation.
\* Violated: two record clicks before getUserMedia settles each create and
\* start an engine, and the second overwrites the reference to the first
\* without stopping it.
C1_AtMostOneLiveEngine == LiveEngines <= 1

\* C2: after an "ended" signal that arrives while the record button is in its
\* recording state, exactly one restart timer is pending.
\* Violated: onend clears the recording state before it looks for it, so it
\* never arms the timer.
C2_EndedArmsOneRestart ==
    last \in {"onend_recording", "onend_recording_released"} =>
        Cardinality(timers) = 1 /\ restartTimeout \in timers

\* C3: in continuous mode an "ended" signal is eventually followed by the
\* restart timer firing (unless a command of the user or the host comes
\* first); the restart is not skipped.
\* Violated under FairSpec: after the signal nothing is pending and the
\* session stays as it is for ever.
C3_RestartNotSkipped ==
    (last = "onend_recording") ~> (last \in {"restart"} \cup Commands)

\* C4, C6, C7 are about a pending restart timer.  No reachable state has one
\* (the restart of recognition.onend is dead code: updateRecordButtonState(false)
\* has just removed the class that the handler then looks for), so what they
\* say of it holds of no state at all.
NoRestartArmed == timers = {} /\ restartTimeout = 0

\* C5: after the "error" signal of the session's engine the session is not
\* listening and no restart is scheduled, and it becomes listening again only
\* when a start command takes effect.
\* Violated: the "start" signal of an engine that an overlapping activation
\* left live (C1) marks the session listening right after the error.
C5_FailedUntilExplicitStart ==
    [][last = "onerror" =>
          /\ ~isListening
          /\ timers = {}
          /\ isListening' => last' \in StartSteps]_vars

C9_InterimAfterFinals == \A i \in InterimAt(display) : i = Len(display)

\* C10: after an explicit stop the transcript is empty: no final segment, and
\* an empty interim segment.
\* Violated: stopRecognition does not touch the panel.
C10_StopClearsTranscript ==
    last \in {"click_stop", "msg_stop"} =>
        \A i \in 1 .. Len(display) :
            display[i].cls = "interim" /\ display[i].text = Empty

\* C11: after every "result" event handled while the panel exists, the
\* interim segment is exactly the interim text of that event: replaced, not
\* appended to, and empty when the event carries no interim text, also when
\* it carries no text at all.
\* Violated: onresult calls appendTranscript only if the event carries some
\* text, so an event without any leaves the previous interim text in place.
C11_InterimIsLatest ==
    (last = "onresult" /\ hasDisplay) =>
        InterimSegment(display) = interimTranscript

\* C12: while the panel exists the final segments are append-only: a "result"
\* event that carries final text appends it (its final fragments, in arrival
\* order) as the last segment, and no other step (engine signal, start, stop,
\* restart, result without final text) changes the segments in any way.
C12_FinalsAppendOnly ==
    [][(hasDisplay /\ hasDisplay') =>
          FinalSegments(display') =
              IF last' = "onresult" /\ finalTranscript' # Empty
              THEN Append(FinalSegments(display), finalTranscript')
              ELSE FinalSegments(display)]_vars

\* C12 witness: a "result" event has just appended a second final segment, of
\* another length than the first, which is still in place.
C12_Witness ==
    /\ last = "onresult"
    /\ finalTranscript # Empty
    /\ Len(FinalSegments(display)) = 2
    /\ FinalSegments(display)[2] = finalTranscript
    /\ FinalSegments(display)[1] # finalTranscript

\* C13: when the panel shows interim text and a "result" event then carries
\* final text and no interim text, the interim segment becomes empty and the
\* final text becomes the last final segment, once: the panel gains that one
\* node and the old interim text is kept nowhere.
C13_InterimCommitted ==
    [][(/\ last' = "onresult"
        /\ hasDisplay
        /\ InterimSegment(display) # Empty
        /\ finalTranscript' # Empty
        /\ interimTranscript' = Empty) =>
          /\ InterimSegment(display') = Empty
          /\ \A i \in InterimAt(display') : display'[i].text = Empty
          /\ FinalSegments(display') =
                Append(FinalSegments(display), finalTranscript')
          /\ Len(display') = Len(display) + 1]_vars

\* C13 witness: the event that has just been handled carried final text only,
\* and the interim node stands before the final node: it was created by an
\* earlier event without final text, hence with interim text, and is now
\* empty.
C13_Witness ==
    /\ last = "onresult"
    /\ finalTranscript # Empty
    /\ interimTranscript = Empty
    /\ display = <<Node("interim", Empty), Node("final", finalTranscript)>>

\* The steps a restart is made of: the engine's "end" signal, and whatever
\* initialises or starts recognition again (the restart timer, the record
\* click, the 'startListening' message, and their continuations).
RestartSteps ==
    {"onend", "onend_recording", "onend_released", "onend_recording_released",
     "restart", "click_start", "init_ok", "init_failed", "msg_start",
     "audio_ok", "audio_failed", "resumed"}

\* C14: a restart leaves the transcript as it is: none of its steps changes
\* the final segments or the interim segment.
C14_RestartKeepsTranscript ==
    [][last' \in RestartSteps => display' = display]_vars

\* C14 witness: recognition has just been started again on a transcript that
\* is not empty, and no other engine is left: the engine that delivered the
\* transcript has ended.
C14_Witness ==
    /\ last \in StartSteps
    /\ recognition = "starting"
    /\ NumReleased(released) = 0
    /\ FinalSegments(display) # << >>
    /\ InterimSegment(display) # Empty

\* C15: the engine's "error" signal leaves the transcript (final and interim
\* segments) and the visual parameters (pulse intensity, scale, rotation) as
\* they are.
C15_ErrorKeepsView ==
    [][last' \in {"onerror", "onerror_released"} =>
          /\ display' = display
          /\ visualizer' = visualizer]_vars

\* C15 witness: the error has just been handled, the session is no longer
\* listening, and the panel still shows text and a mesh that frames have
\* moved.
C15_Witness ==
    /\ last = "onerror"
    /\ ~isListening
    /\ InterimSegment(display) # Empty
    /\ visualizer.pulseIntensity > 0
    /\ visualizer.scale > Unit
    /\ visualizer.rotation.x > 0

\* C16: when getUserMedia fails in initAudio, the caller gets false and gives
\* up: that step creates and starts no engine, does not mark the session
\* listening, arms no timer and starts no other audio initialisation; the
\* continuation that failed is all that leaves the pending ones.
C16_FailedAcquisition ==
    [][last' \in {"init_failed", "audio_failed"} =>
          /\ UNCHANGED <<recognition, released, isListening, recording>>
          /\ UNCHANGED <<timers, restartTimeout, audioContext>>
          /\ ~initAudioCalled'
          /\ NumTasks(tasks') = NumTasks(tasks) - 1]_vars

\* C16 witness: the audio initialisation of a record click has just failed;
\* there is no engine, the session is not listening and nothing is pending.
C16_Witness ==
    /\ last = "init_failed"
    /\ recognition = "null"
    /\ NumReleased(released) = 0
    /\ ~isListening
    /\ NumTasks(tasks) = 0
    /\ timers = {}

\* C17: a task that begins while no audio initialisation is pending creates
\* an AudioContext only if audioContext holds none (none is ever closed), so
\* that start/stop cycles leave at most one.
\* Violated: initAudio creates one on every call, and initializeRecognition
\* calls it on every record click that starts, startRecognition on every start
\* that finds the context suspended.
C17_ContextCreatedOnce ==
    [][(initAudioCalled' /\ NumTasks(tasks) = 0) => audioContext = "null"]_vars

\* C18: once the audio initialisation has succeeded (there is an engine, and
\* no initialisation is pending), a start command that
\* follows a stop (at once, or after the stop's suspend() has taken effect)
\* resumes the suspended pipeline; it does not ask for the microphone again.
\* Violated: a record click that starts always runs initAudio, and
\* startRecognition answers a suspended context with initAudio too; initAudio
\* builds a new context and calls getUserMedia again.
C18_StopStartKeepsStream ==
    [][(/\ last \in {"click_stop", "msg_stop", "suspended"}
        /\ NumTasks(tasks) = 0
        /\ recognition # "null"
        /\ audioContext \in {"suspending", "suspended"}
        /\ last' \in {"msg_start", "click_start"}) =>
          ~initAudioCalled']_vars

\* C19: the frame that follows the "end" signal of the session's engine, given
\* while the record button was in its recording state, samples the analyser
\* and moves the mesh like any other frame, although the session is not marked
\* listening until the restart.
\* Violated: animate does both only while isListening, which onend has just
\* cleared.
C19_FramesAcrossRestart ==
    [][(/\ last = "onend_recording"
        /\ hasDisplay
        /\ audioContext # "null"
        /\ last' = "animate") =>
          visualizer'.time = visualizer.time + 30]_vars

\* C20: the band energies that the frame computes from the buffer and maps
\* to the parameters (bassAvg, midAvg, trebleAvg) are within [0, 1].
\* Violated: bassAvg is pow(mean, 1.2) * 1.2, which is 1.2 when every bass bin
\* is 255.
C20_BandEnergiesInUnit ==
    LET avg == BandAverages(dataArray)
    IN /\ avg.bassAvg \in 0 .. Unit
       /\ avg.midAvg \in 0 .. Unit
       /\ avg.trebleAvg \in 0 .. Unit

\* The sum of the normalised bins of a buffer over a set of (1-based) indices.
RECURSIVE SumOfBins(_, _)
SumOfBins(data, bins) ==
    IF bins = {} THEN 0
    ELSE LET i == CHOOSE j \in bins : TRUE
         IN (data[i] * Unit) \div MaxByte + SumOfBins(data, bins \ {i})

\* C21: the frame splits the buffer into three contiguous ranges that cover
\* every bin once: the bins up to 10% of the buffer are summed into bass, the
\* bins from there up to 40% into mid and the other bins into treble, and each
\* sum is divided by the number of bins of its own range.  (The bounds are
\* rounded down to whole bins: 102 and 409 of 1024.)
C21_BandPartition ==
    LET n == Len(dataArray)
        bass == {i \in 1 .. n : 10 * i <= n}
        mid == {i \in 1 .. n : 10 * i > n /\ 10 * i <= 4 * n}
        treble == {i \in 1 .. n : 10 * i > 4 * n}
        mean == BandMeans(dataArray)
    IN /\ mean.bass = SumOfBins(dataArray, bass) \div Cardinality(bass)
       /\ mean.mid = SumOfBins(dataArray, mid) \div Cardinality(mid)
       /\ mean.treble = SumOfBins(dataArray, treble) \div Cardinality(treble)

\* C21 witness: a frame has sampled a buffer with bins at full scale in each
\* of the three ranges, next to silent ones in mid and treble.
C21_Witness ==
    /\ last = "animate"
    /\ visualizer.time = 30
    /\ BandMeans(dataArray).bass = Unit
    /\ BandMeans(dataArray).mid \in 1 .. Unit - 1
    /\ BandMeans(dataArray).treble \in 1 .. Unit - 1

\* C22: a frame that samples the same buffer as the frame before it (same
\* band energies, same target) moves pulseIntensity toward the target and
\* not beyond it, and leaves 0.85 of the distance (to the thousandth that the
\* numbers here are rounded to).
C22_PulseConverges ==
    [][(/\ last = "animate"
        /\ last' = "animate"
        /\ visualizer'.time = visualizer.time + 30
        /\ dataArray' = dataArray) =>
          LET target == targetPulse(BandAverages(dataArray'))
              before == visualizer.pulseIntensity
              after == visualizer'.pulseIntensity
          IN /\ before <= target => (before <= after /\ after <= target)
             /\ before >= target => (target <= after /\ after <= before)
             /\ 100 * (target - after) - 85 * (target - before) \in 0 .. 99]_vars

\* C22 witness: two frames have sampled the same buffer, which is not silent:
\* the pulse is past the first step (0.15 of the target) and short of the
\* target.
C22_Witness ==
    /\ last = "animate"
    /\ visualizer.time = 60
    /\ dataArray # Silence
    /\ 100 * visualizer.pulseIntensity
           > 15 * targetPulse(BandAverages(dataArray))
    /\ visualizer.pulseIntensity < targetPulse(BandAverages(dataArray))

\* C23: the session is marked listening by the engine's "start" signal only:
\* while the engine it holds has been asked to start and has not yet signalled
\* "start", the listening flag is false.
\* Violated: startRecognition sets isListening right after recognition.start()
\* returns, before the signal.
C23_ListeningOnStarted == recognition = "starting" => ~isListening

\* C24: when a start command has run to its end, its audio initialisation
\* having succeeded and nothing being left pending, the session holds an
\* engine that it has asked to start: a start issued with no engine creates
\* one, whether it came from the record button or as 'startListening'.
\* Violated: startRecognition, which is all that the 'startListening' message
\* runs, creates no engine; it skips recognition.start() when there is none.
C24_StartCreatesEngine ==
    (last \in StartSteps /\ NumTasks(tasks) = 0) => recognition # "null"

\* C25: a stop command (record click on a listening session, 'stopListening',
\* close) given while the session is starting or listening asks the engine to
\* stop and lets go of it: afterwards recognition is null.
\* Violated: stopRecognition calls recognition.stop() and keeps the reference.
C25_StopReleasesEngine ==
    [][(last' \in {"click_stop", "msg_stop", "close"} /\ SessionActive) =>
          recognition' = "null"]_vars

\* C26: whatever panels have been created, closed and created again, at most
\* one render loop runs, so that a tick runs the frame once.
\* Violated: closing the panel ends no loop, and the next panel starts one
\* more; every loop runs animate on the same mesh at every tick.
C26_OneRenderLoop == renderLoops <= 1

\* C27: the panel holds at most one interim node in every reachable state: a
\* "result" event writes its interim text into the interim node that is
\* there and creates one only when there is none.
C27_OneInterimSegment == Cardinality(InterimAt(display)) <= 1

\* C27 witness: a "result" event with final and interim text has just been
\* handled on a panel that had an interim node: its final node stands behind
\* the interim node, which reads the interim text of this event.
C27_Witness ==
    /\ last = "onresult"
    /\ finalTranscript # Empty
    /\ interimTranscript # Empty
    /\ display = <<Node("interim", interimTranscript),
                   Node("final", finalTranscript)>>

\* The handlers of an engine that recognition no longer refers to.
ReleasedSignals ==
    {"onstart_released", "onend_released", "onend_recording_released",
     "onerror_released"}

\* C28: a signal of an engine that the session has let go of leaves the
\* session as it is: the listening flag, the record button's state and the
\* restart timer do not change, in particular not while a newer engine runs.
\* Stated for engines that initializeRecognition has replaced: it stops the
\* engine before it drops the reference, so none of the engines let go of is
\* starting or running.
\* Violated: the handlers of every engine write the same globals, whichever
\* engine recognition refers to by then.
C28_ReleasedSignalsIgnored ==
    [][(/\ last' \in ReleasedSignals
        /\ released["starting"] = 0
        /\ released["running"] = 0) =>
          UNCHANGED <<isListening, recording, timers, restartTimeout>>]_vars

\* C29: whenever the listening flag is true, recognition refers to an engine.
\* Violated: the "start" signal of an engine that an overlapping activation
\* has overwritten (C1) sets the flag while the next record click, having
\* dropped the reference, still awaits its audio initialisation.
C29_ListeningHasEngine == isListening => recognition # "null"

\* C30: whenever no toggle is in progress, the listening flag of the
\* background script, which toggleRecording tests, equals the listening flag
\* of the session, so that a toggle stops a listening session and starts one
\* that is not listening.
\* Violated: the record button and the engine's signals change the session's
\* flag and tell the background script nothing.
C30_HostFlagAgrees == toggling = "none" => hostIsListening = isListening

====
